---- MODULE Spec2Model ----
(***************************************************************************)
(* Model of the Pulumi Cloud REST client (package cloud):                  *)
(*   getCloudAPI, pulumiAPICall, pulumiRESTCall and                        *)
(*   pulumiRESTCallWithAccessToken.                                        *)
(*                                                                         *)
(* Strings are sequences of one-character strings, so that HasPrefix,      *)
(* TrimSuffix, url.Parse and URL.String are computed character by          *)
(* character.  Response bodies are sequences of lexical JSON tokens        *)
(* (whitespace, punctuation, literals, bare words), so that TrimSpace and  *)
(* json.Unmarshal are computed token by token.                             *)
(***************************************************************************)
EXTENDS Integers, Sequences, FiniteSets, TLC

VARIABLES
    \* ---- one invocation of pulumiRESTCall[WithAccessToken] per process ----
    pc,           \* position of each invocation in the code
    args,         \* the arguments of each invocation
    token,        \* local `token`
    reqBody,      \* local `reqBody`
    apiEndpoint,  \* local `apiEndpoint` of pulumiAPICall
    req,          \* the *http.Request built by pulumiAPICall
    resp,         \* the *http.Response returned by client.Do
    respBody,     \* local `respBody`
    respObj,      \* what the caller's respObj points to
    result,       \* the returned error (or nil)
    sent,         \* number of HTTP requests each invocation dispatched
    lookupKey,    \* keys each invocation handed to workspace.GetAccessToken
    store,        \* the credential store (workspace), read only
    server,       \* which remote end answers: "small" or "all" (see Responses)
    \* ---- getCloudAPI applied as a pure function ----
    rawURL,       \* the cloudURL under test
    resolved      \* results of getCloudAPI(rawURL), getCloudAPI(of that), ...

vars == <<pc, args, token, reqBody, apiEndpoint, req, resp, respBody, respObj,
          result, sent, lookupKey, store, server, rawURL, resolved>>

callVars == <<pc, args, token, reqBody, apiEndpoint, req, resp, respBody,
              respObj, result, sent, lookupKey, store, server>>

resolveVars == <<rawURL, resolved>>

(***************************************************************************)
(* Bounds of the model.                                                    *)
(***************************************************************************)
\* largest number of consecutive "/" at the end of a cloud URL's path
MaxSlashes == 2
\* longest response body enumerated token by token
MaxBodyLen == 2
\* getCloudAPI is applied to its own output up to this many times
MaxResolves == 2

(***************************************************************************)
(* package strings                                                         *)
(***************************************************************************)
HasPrefix(s, prefix) ==
    /\ Len(s) >= Len(prefix)
    /\ SubSeq(s, 1, Len(prefix)) = prefix

HasSuffix(s, suffix) ==
    /\ Len(s) >= Len(suffix)
    /\ SubSeq(s, Len(s) - Len(suffix) + 1, Len(s)) = suffix

\* strings.TrimSuffix removes ONE occurrence of suffix, if present.
TrimSuffix(s, suffix) ==
    IF HasSuffix(s, suffix) THEN SubSeq(s, 1, Len(s) - Len(suffix)) ELSE s

\* strings.TrimPrefix removes ONE occurrence of prefix, if present.
TrimPrefix(s, prefix) ==
    IF HasPrefix(s, prefix) THEN SubSeq(s, Len(prefix) + 1, Len(s)) ELSE s

\* strings.Index for a one-character separator: 1-based, 0 when absent.
Index(s, c) ==
    IF \E i \in 1..Len(s) : s[i] = c
    THEN CHOOSE i \in 1..Len(s) : s[i] = c /\ \A j \in 1..(i - 1) : s[j] # c
    ELSE 0

\* strings.Count for a one-character separator.
Count(s, c) == Cardinality({i \in 1..Len(s) : s[i] = c})

Contains(s, c) == Index(s, c) # 0

(***************************************************************************)
(* package net/url: Parse and URL.String, for URLs without userinfo,       *)
(* port, IPv6 literal or percent-escape (the inputs contain none).         *)
(***************************************************************************)
Letters == {"a", "c", "e", "f", "h", "i", "o", "p", "q", "s", "t", "v", "x",
            "A", "B", "D", "E", "G", "T"}

NoURL == [Scheme |-> <<>>, Opaque |-> <<>>, Host |-> <<>>, Path |-> <<>>,
          RawQuery |-> <<>>, ForceQuery |-> FALSE, Fragment |-> <<>>]

\* url.getScheme: <<ok, scheme, rest>>.  A scheme is letters (then also
\* digits, "+", "-", ".") up to the first ":"; any other character before a
\* ":" means there is no scheme; a leading ":" is an error.
RECURSIVE getSchemeFrom(_, _)
getSchemeFrom(s, i) ==
    IF i > Len(s) THEN <<TRUE, <<>>, s>>
    ELSE IF s[i] \in Letters THEN getSchemeFrom(s, i + 1)
    ELSE IF s[i] = "." THEN
        IF i = 1 THEN <<TRUE, <<>>, s>> ELSE getSchemeFrom(s, i + 1)
    ELSE IF s[i] = ":" THEN
        IF i = 1 THEN <<FALSE, <<>>, <<>>>>
        ELSE <<TRUE, SubSeq(s, 1, i - 1), SubSeq(s, i + 1, Len(s))>>
    ELSE <<TRUE, <<>>, s>>

getScheme(s) == getSchemeFrom(s, 1)

\* url.parse, the query: <<rest, RawQuery, ForceQuery>>.  A lone trailing
\* "?" sets ForceQuery; otherwise the first "?" starts the query.
cutQuery(rest) ==
    IF HasSuffix(rest, <<"?">>) /\ Count(rest, "?") = 1
    THEN <<SubSeq(rest, 1, Len(rest) - 1), <<>>, TRUE>>
    ELSE IF Index(rest, "?") = 0 THEN <<rest, <<>>, FALSE>>
    ELSE <<SubSeq(rest, 1, Index(rest, "?") - 1),
           SubSeq(rest, Index(rest, "?") + 1, Len(rest)), FALSE>>

\* the first path segment of rest
firstSegment(rest) ==
    IF Index(rest, "/") = 0 THEN rest
    ELSE SubSeq(rest, 1, Index(rest, "/") - 1)

\* url.parse, the authority and path of a rooted rest: <<Host, Path>>
cutAuthority(scheme, rest) ==
    IF /\ (scheme # <<>> \/ ~HasPrefix(rest, <<"/", "/", "/">>))
       /\ HasPrefix(rest, <<"/", "/">>)
    THEN LET after == SubSeq(rest, 3, Len(rest))
             cut   == Index(after, "/")
         IN IF cut = 0 THEN <<after, <<>>>>
            ELSE <<SubSeq(after, 1, cut - 1), SubSeq(after, cut, Len(after))>>
    ELSE <<<<>>, rest>>

\* url.parse, after the scheme and the query were cut off
parseHier(scheme, rest, query, force) ==
    IF ~HasPrefix(rest, <<"/">>) /\ scheme # <<>> THEN
        \* a rootless path after a scheme is opaque
        [err |-> "", url |-> [NoURL EXCEPT !.Scheme = scheme, !.Opaque = rest,
                                            !.RawQuery = query,
                                            !.ForceQuery = force]]
    ELSE IF ~HasPrefix(rest, <<"/">>) /\ Contains(firstSegment(rest), ":") THEN
        [err |-> "first path segment in URL cannot contain colon", url |-> NoURL]
    ELSE
        [err |-> "",
         url |-> [NoURL EXCEPT !.Scheme = scheme,
                               !.Host = cutAuthority(scheme, rest)[1],
                               !.Path = cutAuthority(scheme, rest)[2],
                               !.RawQuery = query, !.ForceQuery = force]]

parseAfterQuery(scheme, c) == parseHier(scheme, c[1], c[2], c[3])

parseAfterScheme(sch) ==
    IF ~sch[1] THEN [err |-> "missing protocol scheme", url |-> NoURL]
    ELSE parseAfterQuery(sch[2], cutQuery(sch[3]))

\* url.parse(rawurl, viaRequest = false), after the fragment was cut off.
parse(s) == parseAfterScheme(getScheme(s))

setFragment(r, frag) ==
    IF r.err # "" THEN r
    ELSE [err |-> "", url |-> [r.url EXCEPT !.Fragment = frag]]

\* url.Parse: cut the fragment at the first "#", parse the rest.
Parse(s) ==
    IF Index(s, "#") = 0 THEN setFragment(parse(s), <<>>)
    ELSE setFragment(parse(SubSeq(s, 1, Index(s, "#") - 1)),
                     SubSeq(s, Index(s, "#") + 1, Len(s)))

\* URL.String
String(u) ==
    LET scheme == IF u.Scheme # <<>> THEN u.Scheme \o <<":">> ELSE <<>>
        auth   == IF u.Scheme # <<>> \/ u.Host # <<>>
                  THEN (IF u.Host # <<>> \/ u.Path # <<>>
                        THEN <<"/", "/">> ELSE <<>>) \o u.Host
                  ELSE <<>>
        sep    == IF u.Path # <<>> /\ u.Path[1] # "/" /\ u.Host # <<>>
                  THEN <<"/">> ELSE <<>>
        seg1   == IF Index(u.Path, "/") = 0 THEN u.Path
                  ELSE SubSeq(u.Path, 1, Index(u.Path, "/") - 1)
        dot    == IF scheme \o auth \o sep = <<>> /\ Contains(seg1, ":")
                  THEN <<".", "/">> ELSE <<>>
        hier   == IF u.Opaque # <<>> THEN u.Opaque
                  ELSE auth \o sep \o dot \o u.Path
        query  == IF u.ForceQuery \/ u.RawQuery # <<>>
                  THEN <<"?">> \o u.RawQuery ELSE <<>>
        frag   == IF u.Fragment # <<>> THEN <<"#">> \o u.Fragment ELSE <<>>
    IN scheme \o hier \o query \o frag

(***************************************************************************)
(* getCloudAPI                                                             *)
(***************************************************************************)
apiPrefix == <<"a", "p", "i">>

\* The branch that turns a URL into an API-style URL.
WithAPIHost(url) ==
    IF ~HasPrefix(url.Host, apiPrefix \o <<".">>)
    THEN [url EXCEPT !.Host = apiPrefix \o <<".">> \o url.Host]
    ELSE url

\* The serialized form that getCloudAPI returns.
Serialized(url) == TrimSuffix(String(url), <<"/">>)

\* getCloudAPI once cloudURL was parsed
getCloudAPIParsed(p) ==
    IF p.err # "" THEN [err |-> "malformed cloud URL", val |-> <<>>]
    ELSE IF p.url.RawQuery # <<>> \/ p.url.Fragment # <<>> THEN
        [err |-> "cloud URL may not contain querystring or fragment",
         val |-> <<>>]
    ELSE [err |-> "", val |-> Serialized(WithAPIHost(p.url))]

getCloudAPI(cloudURL) ==
    IF cloudURL = <<>> THEN [err |-> "missing cloud URL", val |-> <<>>]
    ELSE getCloudAPIParsed(Parse(cloudURL))

(***************************************************************************)
(* Cloud URLs under test: [scheme ":"] ["//"] host path ["?" query]        *)
(* ["#" fragment], every combination of the parts below.                   *)
(***************************************************************************)
RECURSIVE Slashes(_)
Slashes(k) == IF k = 0 THEN <<>> ELSE <<"/">> \o Slashes(k - 1)

URLSchemes == {<<>>, <<"h", "t", "t", "p", "s", ":">>}
URLMarks   == {<<>>, <<"/", "/">>}
URLHosts   == {<<>>,
               <<"x", ".", "i", "o">>,
               <<"a", "p", "i", ".", "x", ".", "i", "o">>,
               <<"a", "p", "i", ".">>,
               <<"a", "p", "i", "x", ".", "i", "o">>}
URLPaths   == {base \o Slashes(k) : base \in {<<>>, <<"/", "v">>},
                                    k \in 0..MaxSlashes}
URLQueries == {<<>>, <<"?">>, <<"?", "q">>}
URLFrags   == {<<>>, <<"#">>, <<"#", "f">>}

CloudURLs ==
    {s \o m \o h \o p \o q \o f :
        s \in URLSchemes, m \in URLMarks, h \in URLHosts, p \in URLPaths,
        q \in URLQueries, f \in URLFrags}

(***************************************************************************)
(* getCloudAPI as a pure function: applied to a cloud URL, then to its own *)
(* result.                                                                 *)
(***************************************************************************)
ResolveInput == IF resolved = <<>> THEN rawURL ELSE resolved[Len(resolved)].val

Resolve ==
    /\ Len(resolved) < MaxResolves
    /\ resolved # <<>> => resolved[Len(resolved)].err = ""
    /\ resolved' = Append(resolved, getCloudAPI(ResolveInput))
    /\ UNCHANGED <<rawURL, callVars>>

(***************************************************************************)
(* package encoding/json, over token sequences.  The scanner skips         *)
(* whitespace between tokens; a value is null, a number, a string or an    *)
(* object whose members are string ":" value, separated by ",".            *)
(***************************************************************************)
SP == " "

JSONStrings == {"\"code\"", "\"message\"", "\"boom\""}
JSONNumbers == {"500", "404"}
JSONNull    == "null"
JSONScalars == JSONStrings \cup JSONNumbers \cup {JSONNull}

\* the Go string a string literal denotes
StringValue(t) ==
    CASE t = "\"code\""    -> "code"
      [] t = "\"message\"" -> "message"
      [] t = "\"boom\""    -> "boom"

\* the Go int a number literal denotes
NumberValue(t) ==
    CASE t = "500" -> 500
      [] t = "404" -> 404

JSONTokens(data) == SelectSeq(data, LAMBDA t : t # SP)

\* Index after the value that starts at t[i]; 0 on a syntax error.
RECURSIVE SkipValue(_, _)
RECURSIVE SkipMembers(_, _)
SkipValue(t, i) ==
    IF i > Len(t) THEN 0
    ELSE IF t[i] \in JSONScalars THEN i + 1
    ELSE IF t[i] = "{" THEN
        IF i + 1 <= Len(t) /\ t[i + 1] = "}" THEN i + 2
        ELSE SkipMembers(t, i + 1)
    ELSE 0

\* t[i] is where a member's key must be; index after the closing "}".
SkipMembers(t, i) ==
    IF i + 1 > Len(t) \/ t[i] \notin JSONStrings \/ t[i + 1] # ":" THEN 0
    ELSE LET j == SkipValue(t, i + 2) IN
         IF j = 0 \/ j > Len(t) THEN 0
         ELSE IF t[j] = "}" THEN j + 1
         ELSE IF t[j] = "," THEN SkipMembers(t, j + 1)
         ELSE 0

\* json.checkValid: the whole input is exactly one value.
checkValid(data) ==
    LET t == JSONTokens(data) IN SkipValue(t, 1) = Len(t) + 1

\* apitype.ErrorResponse{}: the zero value.
ErrorResponseZero == [Code |-> 0, Message |-> <<>>]

\* One member of an object decoded into a struct with fields
\*   Code int `json:"code"` and Message string `json:"message"`:
\* a matching field takes a value of its type, null leaves it alone, any
\* other value is an UnmarshalTypeError; an unknown key is skipped.
DecodeField(v, key, val) ==
    IF val = JSONNull THEN [err |-> "", val |-> v]
    ELSE IF key = "\"code\"" THEN
        IF val \in JSONNumbers
        THEN [err |-> "", val |-> [v EXCEPT !.Code = NumberValue(val)]]
        ELSE [err |-> "UnmarshalTypeError", val |-> v]
    ELSE IF key = "\"message\"" THEN
        IF val \in JSONStrings
        THEN [err |-> "", val |-> [v EXCEPT !.Message = <<StringValue(val)>>]]
        ELSE [err |-> "UnmarshalTypeError", val |-> v]
    ELSE [err |-> "", val |-> v]

\* The members of a valid object from t[i] on, decoded in order into v; the
\* first type error is kept and decoding goes on.
RECURSIVE DecodeMembers(_, _, _, _)
DecodeMembers(t, i, v, err) ==
    IF t[i] = "}" THEN [err |-> err, val |-> v]
    ELSE LET j == SkipValue(t, i + 2)
             f == DecodeField(v, t[i], t[i + 2])
             e == IF err # "" THEN err ELSE f.err
         IN DecodeMembers(t, IF t[j] = "," THEN j + 1 ELSE j, f.val, e)

\* json.Unmarshal(data, &v) for v of the struct type above.
UnmarshalStruct(data, v) ==
    LET t == JSONTokens(data) IN
    IF ~checkValid(data) THEN [err |-> "SyntaxError", val |-> v]
    ELSE IF t[1] = JSONNull THEN [err |-> "", val |-> v]
    ELSE IF t[1] = "{" THEN DecodeMembers(t, 2, v, "")
    ELSE [err |-> "UnmarshalTypeError", val |-> v]

\* json.Unmarshal(data, &v) for v of type interface{}: any valid value.
UnmarshalAny(data, v) ==
    IF ~checkValid(data) THEN [err |-> "SyntaxError", val |-> v]
    ELSE [err |-> "", val |-> JSONTokens(data)]

\* strings.TrimSpace
RECURSIVE TrimLeft(_)
TrimLeft(s) == IF s # <<>> /\ s[1] = SP THEN TrimLeft(Tail(s)) ELSE s

RECURSIVE TrimRight(_)
TrimRight(s) ==
    IF s # <<>> /\ s[Len(s)] = SP THEN TrimRight(SubSeq(s, 1, Len(s) - 1))
    ELSE s

TrimSpace(s) == TrimRight(TrimLeft(s))

(***************************************************************************)
(* Error values.                                                           *)
(***************************************************************************)
\* a nil error
Nil == [type |-> "nil", msg |-> "", cause |-> "", Code |-> 0, Message |-> <<>>]

\* errors.New(msg), and fmt.Errorf(msg + ": %v", cause)
Errorf(msg, cause) ==
    [type |-> "error", msg |-> msg, cause |-> cause, Code |-> 0,
     Message |-> <<>>]

\* &errResp, an *apitype.ErrorResponse
ErrorResponse(v) ==
    [type |-> "ErrorResponse", msg |-> "", cause |-> "", Code |-> v.Code,
     Message |-> v.Message]

\* the invocation has not returned yet
NotReturned ==
    [type |-> "none", msg |-> "", cause |-> "", Code |-> 0, Message |-> <<>>]

LoginRequired ==
    Errorf("this command requires logging in; try running 'pulumi login' first",
           "")

(***************************************************************************)
(* pulumiRESTCallWithAccessToken: what it does with a response whose body  *)
(* was read.                                                               *)
(***************************************************************************)
\* the caller's respObj: nil, a *interface{} or a pointer to a struct
RespObjKinds == {"nil", "any", "struct"}

RespObjZero(kind) == IF kind = "struct" THEN ErrorResponseZero ELSE <<>>

\* json.Unmarshal(respBody, respObj)
Unmarshal(data, kind, v) ==
    IF kind = "struct" THEN UnmarshalStruct(data, v) ELSE UnmarshalAny(data, v)

IsErrorStatus(statusCode) == statusCode >= 400 /\ statusCode <= 599

\* The error for a 4xx or 5xx response other than 401 (a mutant keeps the
\* raw body text untrimmed).
ErrorFromBodyUntrimmed(statusCode, body) ==
    LET u == UnmarshalStruct(body, ErrorResponseZero) IN
    IF u.err # ""
    THEN ErrorResponse([u.val EXCEPT !.Code = statusCode, !.Message = body])
    ELSE ErrorResponse(u.val)

ErrorFromBody(statusCode, body) ==
    LET u == UnmarshalStruct(body, ErrorResponseZero) IN
    IF u.err # ""
    THEN ErrorResponse([u.val EXCEPT !.Code = statusCode,
                                     !.Message = TrimSpace(body)])
    ELSE ErrorResponse(u.val)

\* The error for a 4xx or 5xx response (a mutant treats 401 like the rest).
ErrorFromResponseNo401(statusCode, body) == ErrorFromBody(statusCode, body)

ErrorFromResponse(statusCode, body) ==
    IF statusCode = 401 THEN LoginRequired
    ELSE ErrorFromBody(statusCode, body)

\* The returned error and the new contents of respObj (a mutant drops the
\* error of the success path's Unmarshal).
DecodeResponseIgnoringError(statusCode, body, kind, v) ==
    IF IsErrorStatus(statusCode)
    THEN [err |-> ErrorFromResponse(statusCode, body), val |-> v]
    ELSE IF kind # "nil" THEN [err |-> Nil, val |-> Unmarshal(body, kind, v).val]
    ELSE [err |-> Nil, val |-> v]

DecodeResponse(statusCode, body, kind, v) ==
    IF IsErrorStatus(statusCode)
    THEN [err |-> ErrorFromResponse(statusCode, body), val |-> v]
    ELSE IF kind # "nil" THEN
        LET u == Unmarshal(body, kind, v) IN
        IF u.err # ""
        THEN [err |-> Errorf("unmarshalling response object", u.err),
              val |-> u.val]
        ELSE [err |-> Nil, val |-> u.val]
    ELSE [err |-> Nil, val |-> v]

(***************************************************************************)
(* pulumiAPICall: the request it builds.                                   *)
(***************************************************************************)
\* net/http validMethod: non-empty, token characters only
ValidMethod(method) ==
    /\ method # <<>>
    /\ \A i \in 1..Len(method) : method[i] \in Letters

\* "%s/api/%s" of the normalized endpoint and path
RequestURL(endpoint, path) ==
    TrimSuffix(endpoint, <<"/">>) \o <<"/", "a", "p", "i", "/">>
        \o TrimPrefix(path, <<"/">>)

\* http.NewRequest: an empty method means GET; fails on an invalid method
\* or a URL that does not parse
NewRequest(method, url, body) ==
    LET m == IF method = <<>> THEN <<"G", "E", "T">> ELSE method IN
    IF ~ValidMethod(m) THEN [err |-> "invalid method", val |-> <<>>]
    ELSE IF Parse(url).err # "" THEN [err |-> Parse(url).err, val |-> <<>>]
    ELSE [err |-> "", val |-> [method |-> m, url |-> url, body |-> body]]

\* The header of the outgoing request (a mutant sets Authorization even for
\* an empty token).
HeaderAlwaysAuthorized(accessToken) ==
    [h \in {"Content-Type", "Authorization"} |->
        IF h = "Content-Type" THEN <<"application/json">>
        ELSE <<"token", " ", accessToken>>]

Header(accessToken) ==
    [h \in {"Content-Type"} \cup
           (IF accessToken # "" THEN {"Authorization"} ELSE {}) |->
        IF h = "Content-Type" THEN <<"application/json">>
        ELSE <<"token", " ", accessToken>>]

\* a request that was never built
NoRequest == [method |-> <<>>, url |-> <<>>, body |-> <<>>,
              header |-> [h \in {} |-> <<>>]]

(***************************************************************************)
(* workspace.GetAccessToken: the stored token for a key, or a failure.     *)
(***************************************************************************)
GetAccessToken(key) ==
    IF key \in DOMAIN store THEN [err |-> "", val |-> store[key]]
    ELSE [err |-> "no stored credentials", val |-> ""]

(***************************************************************************)
(* Responses of the remote end.                                            *)
(***************************************************************************)
Statuses == {200, 204, 399, 400, 401, 404, 500, 599, 600}

BodyTokens == {SP, "{", "}", ":", ",", "\"code\"", "\"message\"", "\"boom\"",
               "500", "null", "oops"}

Pads == {<<>>, <<SP>>}

\* objects of one or two members
BodyMembers ==
    {<<k, ":", v>> : k \in JSONStrings, v \in {"500", "\"boom\"", "null"}}

BodyObjects ==
    {<<"{">> \o m \o <<"}">> : m \in BodyMembers}
    \cup {<<"{">> \o m \o <<",">> \o n \o <<"}">> :
            m \in BodyMembers, n \in BodyMembers}
    \cup {<<"{", "\"boom\"", ":", "{", "}", ",", "\"code\"", ":", "404", "}">>}

\* plain text
BodyTexts == {<<"oops", SP, "oops">>, <<"oops", SP, SP, "{">>}

Bodies ==
    UNION {[1..k -> BodyTokens] : k \in 0..MaxBodyLen}
    \cup {l \o b \o r : l \in Pads, b \in BodyObjects \cup BodyTexts,
                        r \in Pads}

DoFailure   == [fail |-> "do", StatusCode |-> 0, Body |-> <<>>]

AllResponses ==
    [fail : {""}, StatusCode : Statuses, Body : Bodies]
    \cup [fail : {"read"}, StatusCode : {200, 401, 500}, Body : {<<"oops">>}]
    \cup {DoFailure}

SmallResponses ==
    [fail : {""}, StatusCode : {200, 401, 500},
     Body : {<<"{", "\"code\"", ":", "404", ",", "\"message\"", ":",
               "\"boom\"", "}">>,
             <<SP, "oops", SP>>}]
    \cup [fail : {"read"}, StatusCode : {200}, Body : {<<"oops">>}]
    \cup {DoFailure}

\* the responses a remote end may answer with
Responses(end) == IF end = "all" THEN AllResponses ELSE SmallResponses

(***************************************************************************)
(* Invocations.  Each process is one call of pulumiRESTCall or of          *)
(* pulumiRESTCallWithAccessToken; its locals are the process's own.        *)
(***************************************************************************)
Procs == {1, 2}

XIO    == <<"h", "t", "t", "p", "s", ":", "/", "/", "x", ".", "i", "o">>
APIXIO == <<"h", "t", "t", "p", "s", ":", "/", "/", "a", "p", "i", ".",
            "x", ".", "i", "o">>

CallURLs == {<<>>, XIO, XIO \o <<"/">>, APIXIO \o <<"/", "v">>,
             XIO \o <<"?", "q">>}
Methods  == {<<"G", "E", "T">>, <<>>, <<"B", " ", "D">>}
Paths    == {<<"s">>, <<"/", "s">>}
ReqObjs  == {"nil", "ok", "unmarshalable"}
Tokens   == {"", "tokA"}

BaseArgs ==
    [cloudAPI |-> XIO, method |-> <<"G", "E", "T">>, path |-> <<"s">>,
     reqObj |-> "nil", respObj |-> "struct",
     entry |-> "pulumiRESTCallWithAccessToken", token |-> "tokA"]

\* the calls made: the base call with one argument varied, through either
\* entry point
CallArgs ==
    LET one == {[BaseArgs EXCEPT !.cloudAPI = u] : u \in CallURLs}
               \cup {[BaseArgs EXCEPT !.method = m] : m \in Methods}
               \cup {[BaseArgs EXCEPT !.path = q] : q \in Paths}
               \cup {[BaseArgs EXCEPT !.reqObj = o] : o \in ReqObjs}
               \cup {[BaseArgs EXCEPT !.respObj = k] : k \in RespObjKinds}
               \cup {[BaseArgs EXCEPT !.token = t] : t \in Tokens}
    IN one \cup {[a EXCEPT !.entry = "pulumiRESTCall", !.token = ""] :
                    a \in {b \in one : b.token = BaseArgs.token}}

\* credential stores: a token under the cloud URL as the user gave it, or
\* under the API endpoint it resolves to
Stores ==
    {[k \in {XIO} |-> "tokS"],
     [k \in {getCloudAPI(XIO).val} |-> "tokE"]}

\* what json.Marshal(reqObj) yields
Marshal(reqObj) ==
    IF reqObj = "unmarshalable"
    THEN [err |-> "UnsupportedTypeError", val |-> <<>>]
    ELSE [err |-> "", val |-> <<"{", "}">>]

NoResponse == [fail |-> "", StatusCode |-> 0, Body |-> <<>>]

InitLocals ==
    /\ reqBody = [p \in Procs |-> <<>>]
    /\ apiEndpoint = [p \in Procs |-> <<>>]
    /\ req = [p \in Procs |-> NoRequest]
    /\ resp = [p \in Procs |-> NoResponse]
    /\ respBody = [p \in Procs |-> <<>>]
    /\ respObj = [p \in Procs |-> RespObjZero(args[p].respObj)]
    /\ result = [p \in Procs |-> NotReturned]
    /\ sent = [p \in Procs |-> 0]
    /\ lookupKey = [p \in Procs |-> <<>>]

Return(p, err) ==
    /\ result' = [result EXCEPT ![p] = err]
    /\ pc' = [pc EXCEPT ![p] = "done"]

\* pulumiRESTCall: the key it hands to workspace.GetAccessToken (a mutant
\* hands over the resolved endpoint)
LookupKeyResolved(a) == getCloudAPI(a.cloudAPI).val

LookupKey(a) == a.cloudAPI

\* pulumiRESTCall: fetch the stored token, then call on with it
GetToken(p) ==
    /\ pc[p] = "GetToken"
    /\ LET t == GetAccessToken(LookupKey(args[p])) IN
       /\ lookupKey' = [lookupKey EXCEPT ![p] = Append(@, LookupKey(args[p]))]
       /\ IF t.err # ""
          THEN /\ Return(p, Errorf("getting stored credentials", t.err))
               /\ UNCHANGED token
          ELSE /\ token' = [token EXCEPT ![p] = t.val]
               /\ pc' = [pc EXCEPT ![p] = "Marshal"]
               /\ UNCHANGED result
    /\ UNCHANGED <<args, reqBody, apiEndpoint, req, resp, respBody, respObj,
                   sent, store, server, resolveVars>>

\* pulumiRESTCallWithAccessToken: marshal reqObj, if there is one
MarshalRequest(p) ==
    /\ pc[p] = "Marshal"
    /\ IF args[p].reqObj = "nil"
       THEN /\ pc' = [pc EXCEPT ![p] = "Resolve"]
            /\ UNCHANGED <<reqBody, result>>
       ELSE LET m == Marshal(args[p].reqObj) IN
            IF m.err # ""
            THEN /\ Return(p, Errorf("marshalling request object as JSON",
                                     m.err))
                 /\ UNCHANGED reqBody
            ELSE /\ reqBody' = [reqBody EXCEPT ![p] = m.val]
                 /\ pc' = [pc EXCEPT ![p] = "Resolve"]
                 /\ UNCHANGED result
    /\ UNCHANGED <<args, token, apiEndpoint, req, resp, respBody, respObj,
                   sent, lookupKey, store, server, resolveVars>>

\* pulumiAPICall: resolve the endpoint (a mutant keeps it in one variable
\* that every invocation shares)
ResolveEndpointShared(p) ==
    /\ pc[p] = "Resolve"
    /\ LET e == getCloudAPI(args[p].cloudAPI) IN
       IF e.err # ""
       THEN /\ Return(p, Errorf("calling API: getting Pulumi API endpoint",
                                e.err))
            /\ UNCHANGED apiEndpoint
       ELSE /\ apiEndpoint' = [q \in Procs |-> e.val]
            /\ pc' = [pc EXCEPT ![p] = "NewRequest"]
            /\ UNCHANGED result
    /\ UNCHANGED <<args, token, reqBody, req, resp, respBody, respObj, sent,
                   lookupKey, store, server, resolveVars>>

ResolveEndpoint(p) ==
    /\ pc[p] = "Resolve"
    /\ LET e == getCloudAPI(args[p].cloudAPI) IN
       IF e.err # ""
       THEN /\ Return(p, Errorf("calling API: getting Pulumi API endpoint",
                                e.err))
            /\ UNCHANGED apiEndpoint
       ELSE /\ apiEndpoint' = [apiEndpoint EXCEPT ![p] = e.val]
            /\ pc' = [pc EXCEPT ![p] = "NewRequest"]
            /\ UNCHANGED result
    /\ UNCHANGED <<args, token, reqBody, req, resp, respBody, respObj, sent,
                   lookupKey, store, server, resolveVars>>

\* pulumiAPICall: build the request and its header
BuildRequest(p) ==
    /\ pc[p] = "NewRequest"
    /\ LET r == NewRequest(args[p].method,
                           RequestURL(apiEndpoint[p], args[p].path),
                           reqBody[p]) IN
       IF r.err # ""
       THEN /\ Return(p, Errorf("calling API: creating new HTTP request",
                                r.err))
            /\ UNCHANGED req
       ELSE /\ req' = [req EXCEPT ![p] =
                          [method |-> r.val.method, url |-> r.val.url,
                           body |-> r.val.body, header |-> Header(token[p])]]
            /\ pc' = [pc EXCEPT ![p] = "Do"]
            /\ UNCHANGED result
    /\ UNCHANGED <<args, token, reqBody, apiEndpoint, resp, respBody, respObj,
                   sent, lookupKey, store, server, resolveVars>>

\* pulumiAPICall: client.Do(req) (a mutant tries again after a failure)
DoWithRetry(p) ==
    /\ pc[p] = "Do"
    /\ \E r \in Responses(server) :
        /\ sent' = [sent EXCEPT ![p] = @ + 1]
        /\ IF r.fail = "do"
           THEN UNCHANGED <<pc, result, resp>>
           ELSE /\ resp' = [resp EXCEPT ![p] = r]
                /\ pc' = [pc EXCEPT ![p] = "ReadAll"]
                /\ UNCHANGED result
    /\ UNCHANGED <<args, token, reqBody, apiEndpoint, req, respBody, respObj,
                   lookupKey, store, server, resolveVars>>

Do(p) ==
    /\ pc[p] = "Do"
    /\ \E r \in Responses(server) :
        /\ sent' = [sent EXCEPT ![p] = @ + 1]
        /\ IF r.fail = "do"
           THEN /\ Return(p, Errorf("calling API: performing HTTP request",
                                    "transport"))
                /\ UNCHANGED resp
           ELSE /\ resp' = [resp EXCEPT ![p] = r]
                /\ pc' = [pc EXCEPT ![p] = "ReadAll"]
                /\ UNCHANGED result
    /\ UNCHANGED <<args, token, reqBody, apiEndpoint, req, respBody, respObj,
                   lookupKey, store, server, resolveVars>>

\* pulumiRESTCallWithAccessToken: ioutil.ReadAll(resp.Body)
ReadAll(p) ==
    /\ pc[p] = "ReadAll"
    /\ IF resp[p].fail = "read"
       THEN /\ Return(p, Errorf("reading response from API", "read"))
            /\ UNCHANGED respBody
       ELSE /\ respBody' = [respBody EXCEPT ![p] = resp[p].Body]
            /\ pc' = [pc EXCEPT ![p] = "Decode"]
            /\ UNCHANGED result
    /\ UNCHANGED <<args, token, reqBody, apiEndpoint, req, resp, respObj,
                   sent, lookupKey, store, server, resolveVars>>

\* pulumiRESTCallWithAccessToken: classify the status, decode the body
Decode(p) ==
    /\ pc[p] = "Decode"
    /\ LET d == DecodeResponse(resp[p].StatusCode, respBody[p],
                               args[p].respObj, respObj[p]) IN
       /\ respObj' = [respObj EXCEPT ![p] = d.val]
       /\ Return(p, d.err)
    /\ UNCHANGED <<args, token, reqBody, apiEndpoint, req, resp, respBody,
                   sent, lookupKey, store, server, resolveVars>>

Step(p) ==
    \/ GetToken(p)
    \/ MarshalRequest(p)
    \/ ResolveEndpoint(p)
    \/ BuildRequest(p)
    \/ Do(p)
    \/ ReadAll(p)
    \/ Decode(p)

(***************************************************************************)
(* Specifications.                                                         *)
(***************************************************************************)
NoResolve ==
    /\ rawURL = <<>>
    /\ resolved = <<>>

\* concurrent invocations against a small remote end
Init ==
    /\ args \in [Procs -> CallArgs]
    /\ pc = [p \in Procs |->
               IF args[p].entry = "pulumiRESTCall" THEN "GetToken"
               ELSE "Marshal"]
    /\ token = [p \in Procs |-> args[p].token]
    /\ InitLocals
    /\ store \in Stores
    /\ server = "small"
    /\ NoResolve

Next == \E p \in Procs : Step(p)

Spec == Init /\ [][Next]_vars

\* one invocation against every response
InitCall ==
    /\ \E a \in CallArgs :
        /\ args = [p \in Procs |-> a]
        /\ pc = [p \in Procs |->
                   IF p # 1 THEN "idle"
                   ELSE IF a.entry = "pulumiRESTCall" THEN "GetToken"
                   ELSE "Marshal"]
        /\ token = [p \in Procs |-> a.token]
    /\ InitLocals
    /\ store = [k \in {XIO} |-> "tokS"]
    /\ server = "all"
    /\ NoResolve

SpecCall == InitCall /\ [][Next]_vars

\* getCloudAPI alone, on every cloud URL
InitResolve ==
    /\ rawURL \in CloudURLs
    /\ resolved = <<>>
    /\ args = [p \in Procs |-> BaseArgs]
    /\ pc = [p \in Procs |-> "idle"]
    /\ token = [p \in Procs |-> ""]
    /\ InitLocals
    /\ store = [k \in {XIO} |-> "tokS"]
    /\ server = "small"

NextResolve == Resolve

SpecResolve == InitResolve /\ [][NextResolve]_vars

(***************************************************************************)
(* Properties of getCloudAPI (under SpecResolve).                          *)
(***************************************************************************)
APIDot == apiPrefix \o <<".">>

Resolved1 == Len(resolved) >= 1 /\ resolved[1].err = ""

\* the Host of a cloud URL, as url.Parse finds it
HostOf(s) == Parse(s).url.Host

\* C3: for every cloud URL whose host already starts with "api." and that
\* getCloudAPI accepts, getCloudAPI of the result succeeds and returns the
\* identical string, also when the URL ends in more than one "/".
C3_ResolveIdempotent ==
    (/\ Len(resolved) >= 2
     /\ resolved[1].err = ""
     /\ Parse(rawURL).err = ""
     /\ HasPrefix(HostOf(rawURL), APIDot))
    => /\ resolved[2].err = ""
       /\ resolved[2].val = resolved[1].val

\* C4: every string getCloudAPI returns has a host that begins with "api."
\* (prepended exactly once, or left as it was) and does not end with "/".
C4_EndpointShape ==
    Resolved1 =>
        /\ Parse(resolved[1].val).err = ""
        /\ HostOf(resolved[1].val) =
              (IF HasPrefix(HostOf(rawURL), APIDot) THEN HostOf(rawURL)
               ELSE APIDot \o HostOf(rawURL))
        /\ ~HasSuffix(resolved[1].val, <<"/">>)

\* C5: getCloudAPI fails for the empty URL and for every URL whose parsed
\* form carries a query string or a fragment, and so no string it returns
\* contains "?" or "#".
C5_NoQueryNoFragment ==
    Len(resolved) >= 1 =>
        /\ (rawURL = <<>>
            \/ (/\ Parse(rawURL).err = ""
                /\ (Parse(rawURL).url.RawQuery # <<>>
                    \/ Parse(rawURL).url.Fragment # <<>>)))
           => /\ resolved[1].err # ""
              /\ resolved[1].val = <<>>
        /\ resolved[1].err = ""
           => /\ ~Contains(resolved[1].val, "?")
              /\ ~Contains(resolved[1].val, "#")

(***************************************************************************)
(* Properties of the response decoding (under SpecCall).                   *)
(***************************************************************************)
Returned(p) == pc[p] = "done"

\* the invocation got a response and read its body
BodyRead(p) == Returned(p) /\ sent[p] = 1 /\ resp[p] # NoResponse
               /\ resp[p].fail = ""

ErrorPayloadBody ==
    <<"{", "\"code\"", ":", "500", ",", "\"message\"", ":", "\"boom\"", "}">>

\* C1: a 401 response whose body was read always yields the fixed "requires
\* logging in" error, whatever the body is; nothing of the body reaches the
\* error or respObj.
C1_UnauthorizedIsFixed ==
    \A p \in Procs :
        (BodyRead(p) /\ resp[p].StatusCode = 401)
        => /\ result[p] = LoginRequired
           /\ respObj[p] = RespObjZero(args[p].respObj)

C1_Witness ==
    \E p \in Procs :
        /\ BodyRead(p)
        /\ resp[p].StatusCode = 401
        /\ respBody[p] = ErrorPayloadBody
        /\ result[p].msg =
              "this command requires logging in; try running 'pulumi login' first"

\* C2: a response with a status in 400..599 other than 401 always fails with
\* an ErrorResponse: the decoded one when the body unmarshals as one, else
\* code = the status and message = the body without leading and trailing
\* whitespace; respObj is never written.
C2_ErrorStatusYieldsErrorResponse ==
    \A p \in Procs :
        (/\ BodyRead(p)
         /\ resp[p].StatusCode \in 400..599
         /\ resp[p].StatusCode # 401)
        => /\ result[p].type = "ErrorResponse"
           /\ respObj[p] = RespObjZero(args[p].respObj)
           /\ LET u == UnmarshalStruct(resp[p].Body, ErrorResponseZero) IN
              IF u.err = ""
              THEN /\ result[p].Code = u.val.Code
                   /\ result[p].Message = u.val.Message
              ELSE /\ result[p].Code = resp[p].StatusCode
                   /\ result[p].Message # <<>>
                      => /\ result[p].Message[1] # SP
                         /\ result[p].Message[Len(result[p].Message)] # SP
                   /\ \E i, j \in 0..Len(resp[p].Body) :
                        /\ i + j <= Len(resp[p].Body)
                        /\ \A k \in 1..i : resp[p].Body[k] = SP
                        /\ \A k \in 1..j :
                              resp[p].Body[Len(resp[p].Body) + 1 - k] = SP
                        /\ result[p].Message =
                              SubSeq(resp[p].Body, i + 1, Len(resp[p].Body) - j)

C2_Witness ==
    \E p \in Procs :
        /\ BodyRead(p)
        /\ resp[p].StatusCode = 500
        /\ resp[p].Body = <<SP, "oops", SP, "oops", SP>>
        /\ result[p].type = "ErrorResponse"
        /\ result[p].Code = 500
        /\ result[p].Message = <<"oops", SP, "oops">>

\* C6: for a status outside 400..599, with a respObj the call succeeds
\* exactly when the whole body unmarshals into it and fails with the
\* "unmarshalling response object" error otherwise; without a respObj the
\* call succeeds whatever the body is.
C6_SuccessStatusDecodes ==
    \A p \in Procs :
        (BodyRead(p) /\ resp[p].StatusCode \notin 400..599)
        => IF args[p].respObj = "nil"
           THEN result[p] = Nil /\ respObj[p] = RespObjZero("nil")
           ELSE LET ok == IF args[p].respObj = "any"
                          THEN checkValid(resp[p].Body)
                          ELSE UnmarshalStruct(resp[p].Body,
                                               ErrorResponseZero).err = ""
                IN /\ ok <=> result[p] = Nil
                   /\ ~ok => /\ result[p].type = "error"
                             /\ result[p].msg = "unmarshalling response object"

C6_Witness ==
    \E p \in Procs :
        /\ BodyRead(p)
        /\ resp[p].StatusCode = 200
        /\ args[p].respObj = "struct"
        /\ resp[p].Body = <<"{", "\"code\"", ":", "\"boom\"", "}">>
        /\ result[p].msg = "unmarshalling response object"

(***************************************************************************)
(* Properties of the calls (under Spec).                                   *)
(***************************************************************************)
\* the invocation is past pulumiRESTCall's credential lookup
LookedUp(p) == args[p].entry = "pulumiRESTCall" /\ pc[p] # "GetToken"

\* the invocation built its request
Built(p) == req[p] # NoRequest

AccessToken(p) ==
    IF args[p].entry = "pulumiRESTCall" THEN store[args[p].cloudAPI]
    ELSE args[p].token

\* C8: the request pulumiAPICall builds has an Authorization header exactly
\* when the token is non-empty, and then its value is "token " followed by
\* the token.
C8_AuthorizationIffToken ==
    \A p \in Procs :
        Built(p)
        => /\ "Authorization" \in DOMAIN req[p].header
              <=> AccessToken(p) # ""
           /\ AccessToken(p) # ""
              => req[p].header["Authorization"] =
                    <<"token", " ", AccessToken(p)>>
           /\ req[p].header["Content-Type"] = <<"application/json">>

C8_Witness ==
    \E p, q \in Procs :
        /\ Built(p) /\ args[p].token = ""
        /\ args[p].entry = "pulumiRESTCallWithAccessToken"
        /\ DOMAIN req[p].header = {"Content-Type"}
        /\ Built(q) /\ args[q].entry = "pulumiRESTCall"
        /\ req[q].header["Authorization"] = <<"token", " ", "tokS">>

\* What one invocation with arguments a yields when it runs alone against
\* store st and is answered with r: the returned error, the contents of
\* respObj, the request and the number of requests sent.
AloneOutcome(err, obj, request, n) ==
    [result |-> err, respObj |-> obj, req |-> request, sent |-> n]

AloneDecoded(a, request, r) ==
    IF r.fail = "do"
    THEN AloneOutcome(Errorf("calling API: performing HTTP request",
                             "transport"),
                      RespObjZero(a.respObj), request, 1)
    ELSE IF r.fail = "read"
    THEN AloneOutcome(Errorf("reading response from API", "read"),
                      RespObjZero(a.respObj), request, 1)
    ELSE IF r.StatusCode \in 400..599
    THEN AloneOutcome(IF r.StatusCode = 401 THEN LoginRequired
                      ELSE ErrorFromBody(r.StatusCode, r.Body),
                      RespObjZero(a.respObj), request, 1)
    ELSE IF a.respObj = "nil"
    THEN AloneOutcome(Nil, RespObjZero(a.respObj), request, 1)
    ELSE LET u == Unmarshal(r.Body, a.respObj, RespObjZero(a.respObj)) IN
         AloneOutcome(IF u.err = "" THEN Nil
                      ELSE Errorf("unmarshalling response object", u.err),
                      u.val, request, 1)

AloneFailed(a, msg, cause) ==
    AloneOutcome(Errorf(msg, cause), RespObjZero(a.respObj), NoRequest, 0)

AloneSent(a, tok, r) ==
    IF a.reqObj = "unmarshalable"
    THEN AloneFailed(a, "marshalling request object as JSON",
                     "UnsupportedTypeError")
    ELSE IF getCloudAPI(a.cloudAPI).err # ""
    THEN AloneFailed(a, "calling API: getting Pulumi API endpoint",
                     getCloudAPI(a.cloudAPI).err)
    ELSE IF a.method # <<>> /\ ~ValidMethod(a.method)
    THEN AloneFailed(a, "calling API: creating new HTTP request",
                     "invalid method")
    ELSE AloneDecoded(a,
            [method |-> IF a.method = <<>> THEN <<"G", "E", "T">>
                        ELSE a.method,
             url |-> getCloudAPI(a.cloudAPI).val \o <<"/", "a", "p", "i", "/">>
                     \o (IF a.path[1] = "/" THEN Tail(a.path) ELSE a.path),
             body |-> IF a.reqObj = "nil" THEN <<>> ELSE <<"{", "}">>,
             header |-> Header(tok)],
            r)

Alone(a, st, r) ==
    IF a.entry = "pulumiRESTCall"
    THEN IF a.cloudAPI \in DOMAIN st THEN AloneSent(a, st[a.cloudAPI], r)
         ELSE AloneFailed(a, "getting stored credentials",
                          "no stored credentials")
    ELSE AloneSent(a, a.token, r)

\* the response an invocation was answered with
Answer(p) == IF resp[p] = NoResponse THEN DoFailure ELSE resp[p]

\* C9: under every interleaving, what an invocation returns (its error, the
\* contents of respObj, the request it sent, with URL and token) is what
\* it yields when run alone with the same arguments and the same response.
C9_NoInterference ==
    \A p \in Procs :
        Returned(p)
        => AloneOutcome(result[p], respObj[p], req[p], sent[p])
              = Alone(args[p], store, Answer(p))

\* two invocations against different endpoints ran interleaved to the end
C9_Witness ==
    /\ \A p \in Procs : Returned(p) /\ sent[p] = 1 /\ resp[p] # NoResponse
    /\ apiEndpoint[1] # apiEndpoint[2]
    /\ req[1].url # req[2].url
    /\ req[1].header # req[2].header
    /\ result[1] = Nil
    /\ result[2].type = "ErrorResponse"

\* the failures that precede the request
EarlyFailures ==
    {"getting stored credentials", "marshalling request object as JSON",
     "calling API: getting Pulumi API endpoint",
     "calling API: creating new HTTP request"}

\* C10: an invocation dispatches at most one HTTP request and returns once:
\* after it returned, it sends nothing and its result stays; when the
\* credential lookup, the marshalling, the endpoint resolution or the
\* request construction fails, it returns that error having sent nothing.
C10_AtMostOneRequest ==
    /\ [](\A p \in Procs :
            /\ sent[p] <= 1
            /\ result[p].msg \in EarlyFailures => Returned(p) /\ sent[p] = 0
            /\ result[p] # NotReturned <=> Returned(p))
    /\ [][\A p \in Procs :
            Returned(p) => /\ sent'[p] = sent[p]
                           /\ result'[p] = result[p]
                           /\ Returned(p)']_vars

C10_Witness ==
    \E p, q \in Procs :
        /\ Returned(p) /\ sent[p] = 1
        /\ result[p].msg = "calling API: performing HTTP request"
        /\ Returned(q) /\ sent[q] = 0
        /\ result[q].msg = "calling API: creating new HTTP request"

====
